---- MODULE Spec2Model ----
(***************************************************************************)
(* Model of alert.py: the hourly internship alert.  One run of main()     *)
(* loads the seen-set file, visits the three sources (intern-list,        *)
(* jobright, airtable) in order, saves the seen set and mails the digest. *)
(*                                                                         *)
(* Time is in milliseconds since an epoch chosen so that the values fit   *)
(* TLC's integers.  A text is a sequence of tokens; a token is a word, a  *)
(* relative-time phrase "<n><unit> ago", a "%B %d, %Y" date label or a     *)
(* "YYYY-MM-DD" date.  Titles, companies, path segments and job ids are   *)
(* small numbers standing for distinct strings.                            *)
(***************************************************************************)
EXTENDS Integers, Sequences, FiniteSets, TLC

\* ------------------------------------------------------------------ bounds

\* Number of process invocations (runs of main) explored.
MaxRuns == 2
\* Number of one-hour waits allowed between runs.
MaxTicks == 1
\* Largest number in a relative-time phrase given to the functions.
MaxAgo == 122

\* ------------------------------------------------------- program constants

WINDOW_MINS == 120
\* Default of fetch_with_retry's retries parameter (no caller overrides it).
retriesMutant == 2 + 1
retries == 2
\* Default of meets_min_pay's min_hr parameter.
MIN_HR == 25
\* Hours per year used to convert a yearly salary.
YEAR_HOURS == 2080
\* 10**10 in the source; scaled to fit TLC's integers (the hash is opaque).
HashMod == 10^6

MinMs == 60 * 1000
HourMs == 60 * MinMs
DayMs == 24 * HourMs
None == 0 - 1

\* Wall clock when the first run starts: day 3, 10:00 UTC.
NowStart == 3 * DayMs + 10 * HourMs
Today0 == NowStart \div DayMs

\* ------------------------------------------------------------------- texts

UnitTokens == {"hour", "hours", "hr", "hrs", "h", "minute", "minutes", "min", "mins", "m"}

Word(s) == [k |-> "w", n |-> 0, u |-> s]
Rel(n, u) == [k |-> "t", n |-> n, u |-> u]
DateLabel(d) == [k |-> "date", n |-> d, u |-> ""]
IsoDate(d) == [k |-> "iso", n |-> d, u |-> ""]
NoTok == [k |-> "none", n |-> 0, u |-> ""]

MinOf(S) == CHOOSE x \in S : \A y \in S : x <= y

\* "min" in low: the matched phrase, lower-cased, contains the letters "min".
ContainsMin(u) == u \in {"minute", "minutes", "min", "mins"}

\* parse_relative_time: first "<n><unit> ago" phrase of the text, as minutes.
parse_relative_time(text) ==
    LET idx == {i \in DOMAIN text : text[i].k = "t" /\ text[i].u \in UnitTokens}
    IN  IF text = <<>> \/ idx = {}
        THEN [mins |-> None, raw |-> NoTok]
        ELSE LET m == text[MinOf(idx)]
             IN  [mins |-> IF ContainsMin(m.u) THEN m.n ELSE m.n * 60, raw |-> m]

within_last_2hrMutant(date_str) ==
    LET r == parse_relative_time(date_str)
    IN  r.mins # None /\ r.mins < WINDOW_MINS

within_last_2hr(date_str) ==
    LET r == parse_relative_time(date_str)
    IN  r.mins # None /\ r.mins <= WINDOW_MINS

job_in_windowMutant(j, now) ==
    \/ within_last_2hr(j.posted_str)
    \/ /\ j.posted # None
       /\ LET delta == now - j.posted
          IN  \/ (0 <= delta /\ delta <= WINDOW_MINS * 60 * 1000)
              \/ /\ delta > 0
                 /\ (j.posted % DayMs) < MinMs
                 /\ (j.posted \div DayMs) >= (now \div DayMs)

\* job_in_window(j) evaluated at wall clock `now`.
job_in_window(j, now) ==
    \/ within_last_2hr(j.posted_str)
    \/ /\ j.posted # None
       /\ LET delta == now - j.posted
          IN  \/ (0 <= delta /\ delta <= WINDOW_MINS * 60 * 1000)
              \/ /\ delta > 0
                 /\ (j.posted % DayMs) < MinMs
                 /\ (j.posted \div DayMs) >= ((now - DayMs) \div DayMs)

\* _airtable_date_recent: a YYYY-MM-DD cell dated today or yesterday (UTC).
airtable_date_recent(tok, now) ==
    LET today == now \div DayMs
    IN  tok.k = "iso" /\ (tok.n = today \/ tok.n = today - 1)

\* -------------------------------------------------------------- guardrails

\* A salary text: kind "range" is "$lo[-$hi]/unit"; "na" is "N/A"; "none" is
\* missing or empty; "junk" is any text the pattern does not match.
Salary(kind, lo, hi, unit) == [kind |-> kind, lo |-> lo, hi |-> hi, unit |-> unit]

meets_min_payMutant(salary, min_hr) ==
    IF salary.kind # "range" THEN FALSE
    ELSE LET top == IF salary.hi = None THEN salary.lo ELSE salary.hi
         IN  IF salary.unit = "YR" THEN top >= min_hr * YEAR_HOURS ELSE top >= min_hr

meets_min_pay(salary, min_hr) ==
    IF salary.kind # "range" THEN FALSE
    ELSE IF salary.unit = "YR" THEN salary.lo >= min_hr * YEAR_HOURS
    ELSE salary.lo >= min_hr

Disallowed == {"canada", "ontario", "quebec", "uk", "united kingdom", "london", "europe",
               "india", "australia", "toronto", "vancouver", "calgary", "brisbane"}
UsTokens == {"united states", "usa", " u.s.", " us,", "remote", "multi locations"}

\* A location text is the set of its words, lower-cased; "ST" is a two-letter
\* state abbreviation.  Contained(word) is the set of list tokens the word
\* holds as substrings (x in loc_lower): a list token holds itself,
\* "indianapolis" holds "india", "milwaukee" holds "uk".
Contained(word) ==
    CASE word = "indianapolis" -> {"india"}
      [] word = "milwaukee" -> {"uk"}
      [] word \in Disallowed \cup UsTokens \cup {"ST"} -> {word}
      [] OTHER -> {}

is_usa_location(loc) ==
    LET loc_lower == UNION {Contained(w) : w \in loc}
    IN  IF loc = {} THEN TRUE
        ELSE IF loc_lower \cap Disallowed # {} THEN FALSE
        ELSE IF loc_lower \cap UsTokens # {} THEN TRUE
        ELSE IF "ST" \in loc_lower THEN TRUE
        ELSE TRUE

\* ---------------------------------------------------------------- job ids

\* A job id: prefix, key, and whether the key ends in whitespace.
Id(pfx, key, ws) == [pfx |-> pfx, key |-> key, ws |-> ws]

UnitCode(u) ==
    CASE u \in {"hour", "hours"} -> 1
      [] u \in {"hr", "hrs"} -> 2
      [] u = "h" -> 3
      [] u \in {"minute", "minutes"} -> 4
      [] u \in {"min", "mins"} -> 5
      [] OTHER -> 6

TokCode(tok) == IF tok.k = "t" THEN tok.n * 8 + UnitCode(tok.u) ELSE 4000 + tok.n

RECURSIVE StrCode(_)
StrCode(text) == IF text = <<>> THEN 0 ELSE (TokCode(Head(text)) + 7 * StrCode(Tail(text))) % HashMod

Abs(x) == IF x < 0 THEN 0 - x ELSE x

\* abs(hash((title, company, date_str))) % 10**10.  Python salts the hash of
\* a str per process (PYTHONHASHSEED), so the value depends on the process's
\* salt as well as on the tuple.
PyHash(title, company, date_str, salt) ==
    Abs(salt * 7919 - (title * 961 + company * 31 + StrCode(date_str)) * 13) % HashMod

\* ------------------------------------------------------------ job records

\* What the posting behind a record really is (not visible to the program):
\* which posting it is, its salary, its location and when it was posted.
Raw(post, salary, location, at) ==
    [post |-> post, salary |-> salary, location |-> location, at |-> at]

\* A JobRecord.  norm names the normalizer that built it, at is the wall clock
\* at extraction; url and the display fields are left out.
Job(id, title, company, posted, posted_str, norm, at, raw) ==
    [id |-> id, title |-> title, company |-> company, posted |-> posted,
     posted_str |-> posted_str, norm |-> norm, at |-> at, raw |-> raw]

\* The "N mins ago" / "N hours ago" label of an elapsed time.
RelativeLabel(diff_ms) ==
    LET mins_ago == diff_ms \div (60 * 1000)
    IN  IF mins_ago < 60
        THEN Rel(mins_ago, IF mins_ago = 1 THEN "min" ELSE "mins")
        ELSE LET hrs == mins_ago \div 60
             IN  Rel(hrs, IF hrs = 1 THEN "hour" ELSE "hours")

DefaultTitle == 0

\* ------------------------------------------------------------ normalizers

\* strptime(date_str.strip(), "%B %d, %Y") at midnight UTC, or None.
ParseDateLabel(date_str) ==
    IF Len(date_str) = 1 /\ date_str[1].k = "date" THEN date_str[1].n * DayMs ELSE None

RECURSIVE ParseIL(_, _, _)
ParseIL(html, seen_ids, now) ==
    IF html = <<>> THEN <<>>
    ELSE LET m == Head(html)
             job_id == m.path
         IN  IF job_id \in seen_ids THEN ParseIL(Tail(html), seen_ids, now)
             ELSE <<Job(Id("il", job_id.seg, job_id.ws), m.title, m.company,
                        ParseDateLabel(m.date_str), m.date_str, "parse_intern_list",
                        now, m.raw)>>
                  \o ParseIL(Tail(html), seen_ids \cup {job_id}, now)

\* parse_intern_list: every match of the page, first occurrence of each path.
parse_intern_list(html, now) == ParseIL(html, {}, now)

\* scrape_intern_list_playwright: the rows with a relative time inside the
\* window.  A row's title is its first cell (the fallbacks for a row without
\* cells are left out); a missing browser gives no rows.
RECURSIVE scrape_intern_list_playwright(_, _, _)
scrape_intern_list_playwright(raw, now, salt) ==
    IF raw = <<>> THEN <<>>
    ELSE LET item == Head(raw)
             r == parse_relative_time(item.text)
             rest == scrape_intern_list_playwright(Tail(raw), now, salt)
         IN  IF r.mins = None \/ r.mins > WINDOW_MINS THEN rest
             ELSE <<Job(Id("il_pw", PyHash(item.title, item.company, <<r.raw>>, salt), FALSE),
                        item.title, item.company, None, <<r.raw>>,
                        "scrape_intern_list_playwright", now, item.raw)>> \o rest

\* The two guardrails of parse_jobright_next_data.
GuardrailsOk(j) == meets_min_pay(j.salary, MIN_HR) /\ is_usa_location(j.location)

\* parse_jobright_next_data: the entries (each with an id and a postedDate)
\* that are not future-dated, are inside the window and pass the guardrails.
RECURSIVE parse_jobright_next_data(_, _)
parse_jobright_next_data(job_list, now) ==
    IF job_list = <<>> THEN <<>>
    ELSE LET j == Head(job_list)
             rest == parse_jobright_next_data(Tail(job_list), now)
             diff_ms == now - j.postedDate
             window_ms == WINDOW_MINS * 60 * 1000
         IN  IF diff_ms < 0 \/ diff_ms > window_ms THEN rest
             ELSE IF ~GuardrailsOk(j) THEN rest
             ELSE <<Job(Id("jr", j.id, FALSE), j.title, j.company, None,
                        <<RelativeLabel(diff_ms)>>, "parse_jobright_next_data", now,
                        j.raw)>> \o rest

RECURSIVE ParseJR(_, _, _)
ParseJR(links, seen, now) ==
    IF links = <<>> THEN <<>>
    ELSE LET m == Head(links)
             r == parse_relative_time(m.chunk)
         IN  IF m.id \in seen THEN ParseJR(Tail(links), seen, now)
             ELSE IF r.mins # None /\ r.mins <= WINDOW_MINS
             THEN <<Job(Id("jr", m.id, FALSE), m.title, 0, None, <<r.raw>>,
                        "parse_jobright", now, m.raw)>>
                  \o ParseJR(Tail(links), seen \cup {m.id}, now)
             ELSE ParseJR(Tail(links), seen, now)

\* parse_jobright: the static link scan; no guardrail is applied.
parse_jobright(html, now) == ParseJR(html, {}, now)

RECURSIVE ScrapeJR(_, _, _)
ScrapeJR(raw, seen, now) ==
    IF raw = <<>> THEN <<>>
    ELSE LET item == Head(raw)
             r1 == parse_relative_time(item.text)
             r == IF r1.mins = None THEN parse_relative_time(item.parentText) ELSE r1
         IN  IF item.id \in seen THEN ScrapeJR(Tail(raw), seen, now)
             ELSE IF r.mins = None \/ r.mins > WINDOW_MINS THEN ScrapeJR(Tail(raw), seen, now)
             ELSE <<Job(Id("jr", item.id, FALSE), item.title, 0, None, <<r.raw>>,
                        "scrape_jobright_playwright", now, item.raw)>>
                  \o ScrapeJR(Tail(raw), seen \cup {item.id}, now)

\* scrape_jobright_playwright: the browser fallback; no guardrail is applied.
scrape_jobright_playwright(raw, now) == ScrapeJR(raw, {}, now)

RECURSIVE ParseAT(_, _, _, _)
ParseAT(rows, seen, now, salt) ==
    IF rows = <<>> THEN <<>>
    ELSE LET row == Head(rows)
             r == parse_relative_time(row.date_str)
             id == Id("at", PyHash(row.title, row.company, row.date_str, salt), FALSE)
         IN  IF r.mins = None \/ r.mins > WINDOW_MINS \/ id \in seen
             THEN ParseAT(Tail(rows), seen, now, salt)
             ELSE <<Job(id, row.title, row.company, None, <<r.raw>>, "parse_airtable",
                        now, row.raw)>>
                  \o ParseAT(Tail(rows), seen \cup {id}, now, salt)

\* parse_airtable: rows of the readSharedViewData response with a relative
\* time inside the window, first occurrence of each id.
parse_airtable(data, now, salt) == ParseAT(data, {}, now, salt)

\* The date_str scrape_airtable_playwright picks for a row: the first cell
\* holding a relative time inside the window, else the first cell holding a
\* date of today or yesterday, else nothing.
AirtableDateStr(cell_list, now) ==
    LET rel == {i \in DOMAIN cell_list :
                  LET r == parse_relative_time(<<cell_list[i]>>)
                  IN  r.mins # None /\ r.mins <= WINDOW_MINS}
        day == {i \in DOMAIN cell_list : airtable_date_recent(cell_list[i], now)}
    IN  IF rel # {} THEN cell_list[MinOf(rel)]
        ELSE IF day # {} THEN cell_list[MinOf(day)]
        ELSE NoTok

\* scrape_airtable_playwright: the rows for which a date_str was found.
RECURSIVE scrape_airtable_playwright(_, _, _)
scrape_airtable_playwright(raw, now, salt) ==
    IF raw = <<>> THEN <<>>
    ELSE LET row == Head(raw)
             date_str == AirtableDateStr(row.cells, now)
             rest == scrape_airtable_playwright(Tail(raw), now, salt)
         IN  IF date_str = NoTok THEN rest
             ELSE <<Job(Id("at", PyHash(row.title, row.company, <<date_str>>, salt), FALSE),
                        row.title, row.company, None, <<date_str>>,
                        "scrape_airtable_playwright", now, row.raw)>> \o rest

\* ------------------------------------------------------------- seen file

\* line.strip(): a line read back has lost its trailing whitespace.
Strip(id) == [id EXCEPT !.ws = FALSE]

\* save_seen writes one line per id (sorted; the order is not observable
\* through load_seen, so the file is the set of its lines).
save_seen(seen) == seen

\* load_seen: the stripped, non-empty lines of the file.
load_seen(file) == {Strip(line) : line \in file}

\* ------------------------------------------------------------ deduplicator

MarkSeenMutant(seen, id) == seen
\* seen.add(j["id"])
MarkSeen(seen, id) == seen \cup {id}

IsNewMutant(id, seen) == TRUE
\* new = j["id"] not in seen
IsNew(id, seen) == id \notin seen

\* The loop "new = id not in seen; seen.add(id); if new: all_jobs.append".
RECURSIVE MergeJobs(_, _, _, _)
MergeJobs(jobs, seen, all, src) ==
    IF jobs = <<>> THEN [seen |-> seen, all |-> all]
    ELSE LET j == Head(jobs)
             new == IsNew(j.id, seen)
         IN  MergeJobs(Tail(jobs), MarkSeen(seen, j.id),
                       IF new THEN Append(all, <<j, src>>) ELSE all, src)

sort_keyMutant(x) == IF x[1].posted # None THEN <<1, x[1].posted>> ELSE <<0, 0>>
\* sort_key: (0, 0) without a posted timestamp, (1, -timestamp) with one.
sort_key(x) == IF x[1].posted # None THEN <<1, 0 - x[1].posted>> ELSE <<0, 0>>

KeyLess(a, b) == a[1] < b[1] \/ (a[1] = b[1] /\ a[2] < b[2])

\* Insert x behind every element whose key is not greater (a stable sort).
RECURSIVE InsertByKey(_, _)
InsertByKey(x, s) ==
    IF s = <<>> THEN <<x>>
    ELSE IF KeyLess(sort_key(x), sort_key(Head(s))) THEN <<x>> \o s
    ELSE <<Head(s)>> \o InsertByKey(x, Tail(s))

RECURSIVE SortFrom(_, _)
SortFrom(todo, done) ==
    IF todo = <<>> THEN done ELSE SortFrom(Tail(todo), InsertByKey(Head(todo), done))

\* to_send.sort(key=sort_key)
SortJobs(s) == SortFrom(s, <<>>)

\* ---------------------------------------------------------- the outside

\* A posting as a site holds it.  label says how the site shows its time:
\* "date" a calendar date, "rel" a relative phrase, "iso" a YYYY-MM-DD date.
Posting(id, ws, title, company, posted, label, salary, location) ==
    [id |-> id, ws |-> ws, title |-> title, company |-> company, posted |-> posted,
     label |-> label, salary |-> salary, location |-> location]

NoSalary == Salary("none", 0, 0, "HR")
ilA == Posting(11, FALSE, 1, 1, Today0 * DayMs, "date", NoSalary, {})
ilB == Posting(12, FALSE, 2, 2, (Today0 - 3) * DayMs, "date", NoSalary, {})
ilY == Posting(15, FALSE, 1, 2, (Today0 - 1) * DayMs, "date", NoSalary, {})
ilW == Posting(13, TRUE, 3, 1, Today0 * DayMs, "date", NoSalary, {})
ilR == Posting(14, FALSE, 4, 2, NowStart - 30 * MinMs, "rel", NoSalary, {})
J1 == Posting(21, FALSE, 5, 3, NowStart - 30 * MinMs, "rel", Salary("range", 30, 35, "HR"), {"remote"})
J2 == Posting(22, FALSE, 6, 3, NowStart - 90 * MinMs, "rel", Salary("range", 20, 40, "HR"), {"usa"})
J3 == Posting(23, FALSE, 7, 4, NowStart - 30 * MinMs, "rel", Salary("range", 80000, 90000, "YR"),
              {"toronto", "canada"})
atI == Posting(31, FALSE, 8, 5, Today0 * DayMs, "iso", NoSalary, {})
atR == Posting(32, FALSE, 9, 5, NowStart - 30 * MinMs, "rel", NoSalary, {})

\* What a fetch, an API call or a browser scrape brings back: st "fail" (it
\* raises; for the Airtable API: it returns None), or st "ok" with rows.
Got(st, rows) == [st |-> st, rows |-> rows]
Unfetched == Got("unk", <<>>)
Failure == Got("fail", <<>>)

Keys == {"il", "il_pw", "m1", "m2", "m3", "jr", "jr_pw", "at", "at_pw"}

\* The payloads each place may hold.  They do not change between runs.
Payloads(key) ==
    CASE key = "il" -> {Failure, Got("ok", <<>>), Got("ok", <<ilY, ilA>>), Got("ok", <<ilB>>),
                        Got("ok", <<ilA, ilB, ilA>>), Got("ok", <<ilW>>)}
      [] key = "il_pw" -> {Failure, Got("ok", <<>>), Got("ok", <<ilR>>)}
      [] key \in {"m1", "m2", "m3"} -> {Failure, Got("ok", <<J2, J3>>), Got("ok", <<J1, J2>>)}
      [] key = "jr" -> {Failure, Got("ok", <<>>), Got("ok", <<J2>>)}
      [] key = "jr_pw" -> {Failure, Got("ok", <<>>), Got("ok", <<J3>>)}
      [] key = "at" -> {Failure, Got("ok", <<atI>>), Got("ok", <<atR, atR>>)}
      [] key = "at_pw" -> {Failure, Got("ok", <<>>), Got("ok", <<atI, atR>>)}

\* The time text a site shows for a posting at wall clock `now`.
TimeTok(p, now) ==
    CASE p.label = "date" -> DateLabel(p.posted \div DayMs)
      [] p.label = "iso" -> IsoDate(p.posted \div DayMs)
      [] OTHER -> RelativeLabel(now - p.posted)

RawOf(p) == Raw(p.id, p.salary, p.location, p.posted)

\* The matches of parse_intern_list's pattern in the static page.
ILMatch(p, now) ==
    [path |-> [seg |-> p.id, ws |-> p.ws], title |-> p.title,
     date_str |-> <<TimeTok(p, now)>>, company |-> p.company, raw |-> RawOf(p)]
\* A row the browser script of scrape_intern_list_playwright returns.
ILItem(p, now) ==
    [title |-> p.title, company |-> p.company, text |-> <<TimeTok(p, now)>>, raw |-> RawOf(p)]
\* An entry of __NEXT_DATA__.props.pageProps.initialJobs.
MiniJob(p, now) ==
    [id |-> p.id, postedDate |-> p.posted, salary |-> p.salary, location |-> p.location,
     title |-> p.title, company |-> p.company, raw |-> RawOf(p)]
\* A /jobs/info/<id> link of the Jobright page with the 120 characters around it.
JRLink(p, now) ==
    [id |-> p.id, title |-> DefaultTitle, chunk |-> <<TimeTok(p, now)>>, raw |-> RawOf(p)]
\* An item the browser script of scrape_jobright_playwright returns.
JRItem(p, now) ==
    [id |-> p.id, title |-> p.title, text |-> <<TimeTok(p, now)>>, parentText |-> <<>>,
     raw |-> RawOf(p)]
\* A row of the readSharedViewData response.
ATRow(p, now) ==
    [title |-> p.title, company |-> p.company, date_str |-> <<TimeTok(p, now)>>,
     raw |-> RawOf(p)]
\* A cell list the browser script of scrape_airtable_playwright returns.
ATCells(p, now) ==
    [title |-> p.title, company |-> p.company, cells |-> <<TimeTok(p, now)>>, raw |-> RawOf(p)]

\* The hash salts a process may start with.
Salts == {1, 2}

Sources == <<"intern-list", "jobright", "airtable">>
JOBRIGHT_MINISITES == <<"m1", "m2", "m3">>

\* for j in got: if j["id"] not in seen_jr: seen_jr.add(j["id"]); jr_parsed.append(j)
RECURSIVE AppendUnseen(_, _)
AppendUnseen(jr_parsed, got) ==
    IF got = <<>> THEN jr_parsed
    ELSE LET j == Head(got)
             seen_jr == {jr_parsed[i].id : i \in DOMAIN jr_parsed}
         IN  AppendUnseen(IF j.id \in seen_jr THEN jr_parsed ELSE Append(jr_parsed, j), Tail(got))

\* ------------------------------------------------------------------ state

VARIABLES
    now,            \* wall clock (ms)
    ticks,          \* clock advances so far
    world,          \* what each place holds, once it has been contacted
    store,          \* the lines of SEEN_FILE
    run,            \* number of the current (or last) run of main
    pc,             \* position in main
    salt,           \* hash salt of the running process (0: no process)
    seen,           \* main's seen
    all_jobs,       \* main's all_jobs / to_send
    url,            \* jobright block: 1..3 a minisite, 4 JOBRIGHT_URL
    fetches,        \* failed attempts of the fetch_with_retry in progress
    jr_parsed,      \* jobright block's jr_parsed
    loaded,         \* history: the set load_seen returned in this run
    runNow,         \* history: wall clock of this run
    prevNow,        \* history: wall clock of the run before
    attempted,      \* history: the source blocks entered in this run
    failed,         \* history: the source blocks that ended in their except clause
    raisedFetches,  \* history: per source, fetch calls made for the URL that raised
    returned,       \* history: the records the normalizers returned in this run
    fast,           \* history: per source, how the non-browser extraction ended
    pwInvoked,      \* history: sources whose browser normalizer was invoked
    saveCalls,      \* history: calls of save_seen in this run
    saved,          \* history: the set passed to save_seen
    mailerCalls,    \* history: SMTP sessions opened in this run
    mailOutcome,    \* history: "none", "sent" or "failed"
    creds,          \* history: the environment as main read it
    log,            \* history: messages printed in this run
    extracted,      \* history: (normalizer, posting, title, company, id) over all runs
    input,          \* function calls: the arguments of a call
    output          \* function calls: what the call returned

vars == <<now, ticks, world, store, run, pc, salt, seen, all_jobs, url, fetches, jr_parsed,
          loaded, runNow, prevNow, attempted, failed, raisedFetches, returned, fast,
          pwInvoked, saveCalls, saved, mailerCalls, mailOutcome, creds, log, extracted,
          input, output>>

\* The arguments of a call (fields a function does not take keep a default)
\* and what it returned.
Call(fn, text, salary, min_hr, loc, elapsed, page, at) ==
    [fn |-> fn, text |-> text, salary |-> salary, min_hr |-> min_hr, loc |-> loc,
     elapsed |-> elapsed, page |-> page, at |-> at]
Result(fn, ok, mins, raw, jobs) == [fn |-> fn, ok |-> ok, mins |-> mins, raw |-> raw, jobs |-> jobs]
NoCall == Call("none", <<>>, NoSalary, 0, {}, 0, <<>>, 0)
NoResult == Result("none", FALSE, None, NoTok, <<>>)

NoCreds == [read |-> FALSE, to |-> FALSE, pw |-> FALSE]
RunEnd == {"done", "fatal"}

\* The state before the first run of main.
NotStarted ==
    /\ now = NowStart /\ ticks = 0
    /\ world = [k \in Keys |-> Unfetched]
    /\ store = {}
    /\ run = 0 /\ pc = "idle" /\ salt = 0
    /\ seen = {} /\ all_jobs = <<>>
    /\ url = 1 /\ fetches = 0 /\ jr_parsed = <<>>
    /\ loaded = {} /\ runNow = None /\ prevNow = None
    /\ attempted = <<>> /\ failed = {}
    /\ raisedFetches = [s \in {"intern-list", "jobright", "airtable"} |-> 0]
    /\ returned = {}
    /\ fast = [s \in {"intern-list", "jobright", "airtable"} |-> "none"]
    /\ pwInvoked = {}
    /\ saveCalls = 0 /\ saved = {}
    /\ mailerCalls = 0 /\ mailOutcome = "none" /\ creds = NoCreds
    /\ log = {} /\ extracted = {}

Init == NotStarted /\ input = NoCall /\ output = NoResult

\* What a contact with a place brings back: any payload the first time, the
\* same payload ever after.
Fetch(key) == IF world[key].st = "unk" THEN Payloads(key) ELSE {world[key]}

Returned(jobs, src) ==
    {[id |-> jobs[i].id, src |-> src,
      inwin |-> (jobs[i].norm = "parse_intern_list" => job_in_window(jobs[i], now))] :
        i \in DOMAIN jobs}

Extracted(jobs) ==
    {[norm |-> jobs[i].norm, post |-> jobs[i].raw.post, title |-> jobs[i].title,
      company |-> jobs[i].company, id |-> jobs[i].id] : i \in DOMAIN jobs}

\* The block that follows a source's block in main.
NextBlock(src) ==
    CASE src = "intern-list" -> "jr"
      [] src = "jobright" -> "at"
      [] OTHER -> "save"

AfterSourceErrorMutant(src) == "fatal"
\* except Exception as e: print(...) -- main goes on with the next block.
AfterSourceError(src) == NextBlock(src)

AfterMailErrorMutant == "done"
\* except Exception as e: print(...); raise -- main ends with the exception.
AfterMailError == "fatal"

\* A process starts main, at once or an hour after the run before it:
\* seen = load_seen(); all_jobs = [].
Start ==
    /\ pc \in {"idle"} \cup RunEnd
    /\ run < MaxRuns
    /\ run' = run + 1
    /\ \E wait \in {0, 1} :
        /\ ticks + wait <= MaxTicks
        /\ ticks' = ticks + wait
        /\ now' = now + wait * HourMs
        /\ runNow' = now + wait * HourMs
    /\ salt' \in Salts
    /\ seen' = load_seen(store)
    /\ loaded' = load_seen(store)
    /\ all_jobs' = <<>>
    /\ url' = 1 /\ fetches' = 0 /\ jr_parsed' = <<>>
    /\ prevNow' = runNow
    /\ attempted' = <<>> /\ failed' = {}
    /\ raisedFetches' = [s \in DOMAIN raisedFetches |-> 0]
    /\ returned' = {}
    /\ fast' = [s \in DOMAIN fast |-> "none"]
    /\ pwInvoked' = {}
    /\ saveCalls' = 0 /\ saved' = {}
    /\ mailerCalls' = 0 /\ mailOutcome' = "none" /\ creds' = NoCreds
    /\ log' = {}
    /\ pc' = "il"
    /\ UNCHANGED <<world, store, extracted, input, output>>

\* ------------------------------------------------------- intern-list block

ILFallbackMutant(in_window) == TRUE
\* if in_window == 0: the browser normalizer is tried.
ILFallback(in_window) == in_window = 0

\* fetch(INTERN_LIST_URL), parse_intern_list and the loop over parsed.
IL ==
    /\ pc = "il"
    /\ \E html \in Fetch("il") :
        /\ world' = [world EXCEPT !["il"] = html]
        /\ attempted' = Append(attempted, "intern-list")
        /\ IF html.st = "fail"
           THEN /\ pc' = AfterSourceError("intern-list")
                /\ failed' = failed \cup {"intern-list"}
                /\ raisedFetches' = [raisedFetches EXCEPT !["intern-list"] = 1]
                /\ fast' = [fast EXCEPT !["intern-list"] = "raised"]
                /\ log' = log \cup {"intern-list fetch error"}
                /\ UNCHANGED <<seen, all_jobs, returned, extracted>>
           ELSE LET parsed == parse_intern_list([i \in DOMAIN html.rows |-> ILMatch(html.rows[i], now)], now)
                    kept == SelectSeq(parsed, LAMBDA j : job_in_window(j, now))
                    m == MergeJobs(kept, seen, all_jobs, "intern-list")
                    in_window == Len(kept)
                IN  /\ seen' = m.seen
                    /\ all_jobs' = m.all
                    /\ returned' = returned \cup Returned(parsed, "intern-list")
                    /\ extracted' = extracted \cup Extracted(parsed)
                    /\ fast' = [fast EXCEPT !["intern-list"] =
                                   IF in_window = 0 THEN "zero" ELSE "some"]
                    /\ pc' = IF ILFallback(in_window) THEN "il_pw"
                             ELSE NextBlock("intern-list")
                    /\ UNCHANGED <<failed, raisedFetches, log>>
    /\ UNCHANGED <<input, output, now, ticks, store, run, salt, url, fetches, jr_parsed, loaded, runNow,
                   prevNow, pwInvoked, saveCalls, saved, mailerCalls, mailOutcome, creds>>

\* in_window == 0: scrape_intern_list_playwright() and the loop over il_pw.
ILPlaywright ==
    /\ pc = "il_pw"
    /\ \E dom \in Fetch("il_pw") :
        /\ world' = [world EXCEPT !["il_pw"] = dom]
        /\ pwInvoked' = pwInvoked \cup {"intern-list"}
        /\ IF dom.st = "fail"
           THEN /\ pc' = AfterSourceError("intern-list")
                /\ failed' = failed \cup {"intern-list"}
                /\ log' = log \cup {"intern-list fetch error"}
                /\ UNCHANGED <<seen, all_jobs, returned, extracted>>
           ELSE LET il_pw == scrape_intern_list_playwright([i \in DOMAIN dom.rows |-> ILItem(dom.rows[i], now)],
                                                           now, salt)
                    m == MergeJobs(il_pw, seen, all_jobs, "intern-list")
                IN  /\ seen' = m.seen
                    /\ all_jobs' = m.all
                    /\ returned' = returned \cup Returned(il_pw, "intern-list")
                    /\ extracted' = extracted \cup Extracted(il_pw)
                    /\ pc' = NextBlock("intern-list")
                    /\ UNCHANGED <<failed, log>>
    /\ UNCHANGED <<input, output, now, ticks, store, run, salt, url, fetches, jr_parsed, loaded, runNow,
                   prevNow, attempted, raisedFetches, fast, saveCalls, saved, mailerCalls,
                   mailOutcome, creds>>

\* ---------------------------------------------------------- jobright block

JRKey == IF url <= Len(JOBRIGHT_MINISITES) THEN JOBRIGHT_MINISITES[url] ELSE "jr"

JREnter == IF url = 1 /\ fetches = 0 THEN Append(attempted, "jobright") ELSE attempted

\* An attempt of fetch_with_retry fails.  A place that is down fails every
\* attempt; a place that is up may fail any attempt but the last.
FetchFails(html) == html.st = "fail" \/ fetches < retries

\* fetch_with_retry: the attempt fails and attempt < retries: print, go round.
JRFetchRetry ==
    /\ pc = "jr"
    /\ fetches < retries
    /\ \E html \in Fetch(JRKey) :
        /\ FetchFails(html)
        /\ world' = [world EXCEPT ![JRKey] = html]
    /\ fetches' = fetches + 1
    /\ attempted' = JREnter
    /\ log' = log \cup {"fetch retry"}
    /\ UNCHANGED <<input, output, now, ticks, store, run, pc, salt, seen, all_jobs, url, jr_parsed, loaded,
                   runNow, prevNow, failed, raisedFetches, returned, fast, pwInvoked,
                   saveCalls, saved, mailerCalls, mailOutcome, creds, extracted>>

\* fetch_with_retry: the attempt fails and attempt == retries: raise; main's
\* except clause ends the jobright block.
JRFetchRaise ==
    /\ pc = "jr"
    /\ fetches >= retries
    /\ \E html \in Fetch(JRKey) :
        /\ html.st = "fail"
        /\ world' = [world EXCEPT ![JRKey] = html]
    /\ attempted' = JREnter
    /\ pc' = AfterSourceError("jobright")
    /\ failed' = failed \cup {"jobright"}
    /\ raisedFetches' = [raisedFetches EXCEPT !["jobright"] = fetches + 1]
    /\ fast' = [fast EXCEPT !["jobright"] = "raised"]
    /\ log' = log \cup {"jobright fetch error"}
    /\ fetches' = 0
    /\ UNCHANGED <<input, output, now, ticks, store, run, salt, seen, all_jobs, url, jr_parsed, loaded,
                   runNow, prevNow, returned, pwInvoked, saveCalls, saved, mailerCalls,
                   mailOutcome, creds, extracted>>

\* The loop "for j in jr_parsed" that ends the jobright block.
JRMerge(jobs) ==
    LET m == MergeJobs(jobs, seen, all_jobs, "jobright")
    IN  /\ seen' = m.seen
        /\ all_jobs' = m.all
        /\ pc' = NextBlock("jobright")

\* fetch_with_retry returns the page: a minisite's jobs are added to
\* jr_parsed; after the last minisite an empty jr_parsed sends main to
\* JOBRIGHT_URL, whose links parse_jobright scans.
JRFetchOk ==
    /\ pc = "jr"
    /\ \E html \in Fetch(JRKey) :
        /\ html.st = "ok"
        /\ world' = [world EXCEPT ![JRKey] = html]
        /\ LET got == IF url <= Len(JOBRIGHT_MINISITES)
                      THEN parse_jobright_next_data([i \in DOMAIN html.rows |-> MiniJob(html.rows[i], now)], now)
                      ELSE parse_jobright([i \in DOMAIN html.rows |-> JRLink(html.rows[i], now)], now)
               parsed == IF url <= Len(JOBRIGHT_MINISITES)
                         THEN AppendUnseen(jr_parsed, got) ELSE got
           IN  /\ jr_parsed' = parsed
               /\ returned' = returned \cup Returned(got, "jobright")
               /\ extracted' = extracted \cup Extracted(got)
               /\ IF url < Len(JOBRIGHT_MINISITES)
                  THEN /\ url' = url + 1
                       /\ UNCHANGED <<pc, seen, all_jobs, fast>>
                  ELSE IF parsed # <<>>
                  THEN /\ JRMerge(parsed)
                       /\ fast' = [fast EXCEPT !["jobright"] = "some"]
                       /\ UNCHANGED url
                  ELSE IF url = Len(JOBRIGHT_MINISITES)
                  THEN /\ url' = url + 1
                       /\ UNCHANGED <<pc, seen, all_jobs, fast>>
                  ELSE /\ pc' = "jr_pw"
                       /\ fast' = [fast EXCEPT !["jobright"] = "zero"]
                       /\ UNCHANGED <<url, seen, all_jobs>>
    /\ fetches' = 0
    /\ attempted' = JREnter
    /\ UNCHANGED <<input, output, now, ticks, store, run, salt, loaded, runNow, prevNow, failed,
                   raisedFetches, pwInvoked, saveCalls, saved, mailerCalls, mailOutcome,
                   creds, log>>

\* if not jr_parsed: jr_parsed = scrape_jobright_playwright(); then the loop.
JRPlaywright ==
    /\ pc = "jr_pw"
    /\ \E dom \in Fetch("jr_pw") :
        /\ world' = [world EXCEPT !["jr_pw"] = dom]
        /\ pwInvoked' = pwInvoked \cup {"jobright"}
        /\ IF dom.st = "fail"
           THEN /\ pc' = AfterSourceError("jobright")
                /\ failed' = failed \cup {"jobright"}
                /\ log' = log \cup {"jobright fetch error"}
                /\ UNCHANGED <<seen, all_jobs, jr_parsed, returned, extracted>>
           ELSE LET got == scrape_jobright_playwright([i \in DOMAIN dom.rows |-> JRItem(dom.rows[i], now)], now)
                IN  /\ jr_parsed' = got
                    /\ JRMerge(got)
                    /\ returned' = returned \cup Returned(got, "jobright")
                    /\ extracted' = extracted \cup Extracted(got)
                    /\ UNCHANGED <<failed, log>>
    /\ UNCHANGED <<input, output, now, ticks, store, run, salt, url, fetches, loaded, runNow, prevNow,
                   attempted, raisedFetches, fast, saveCalls, saved, mailerCalls,
                   mailOutcome, creds>>

\* ---------------------------------------------------------- airtable block

\* data = fetch_airtable_table(); if data: parse_airtable and the loop.
AT ==
    /\ pc = "at"
    /\ \E data \in Fetch("at") :
        /\ world' = [world EXCEPT !["at"] = data]
        /\ attempted' = Append(attempted, "airtable")
        /\ IF data.st = "fail"
           THEN /\ pc' = "at_pw"
                /\ fast' = [fast EXCEPT !["airtable"] = "nothing"]
                /\ UNCHANGED <<seen, all_jobs, returned, extracted>>
           ELSE LET at_jobs == parse_airtable([i \in DOMAIN data.rows |-> ATRow(data.rows[i], now)], now, salt)
                    m == MergeJobs(at_jobs, seen, all_jobs, "airtable")
                IN  /\ seen' = m.seen
                    /\ all_jobs' = m.all
                    /\ returned' = returned \cup Returned(at_jobs, "airtable")
                    /\ extracted' = extracted \cup Extracted(at_jobs)
                    /\ fast' = [fast EXCEPT !["airtable"] =
                                   IF at_jobs = <<>> THEN "zero" ELSE "some"]
                    /\ pc' = NextBlock("airtable")
    /\ UNCHANGED <<input, output, now, ticks, store, run, salt, url, fetches, jr_parsed, loaded, runNow,
                   prevNow, failed, raisedFetches, pwInvoked, saveCalls, saved, mailerCalls,
                   mailOutcome, creds, log>>

\* else: pw_jobs = scrape_airtable_playwright() and the loop.
ATPlaywright ==
    /\ pc = "at_pw"
    /\ \E dom \in Fetch("at_pw") :
        /\ world' = [world EXCEPT !["at_pw"] = dom]
        /\ pwInvoked' = pwInvoked \cup {"airtable"}
        /\ IF dom.st = "fail"
           THEN /\ pc' = AfterSourceError("airtable")
                /\ failed' = failed \cup {"airtable"}
                /\ log' = log \cup {"airtable error"}
                /\ UNCHANGED <<seen, all_jobs, returned, extracted>>
           ELSE LET pw_jobs == scrape_airtable_playwright([i \in DOMAIN dom.rows |-> ATCells(dom.rows[i], now)],
                                                          now, salt)
                    m == MergeJobs(pw_jobs, seen, all_jobs, "airtable")
                IN  /\ seen' = m.seen
                    /\ all_jobs' = m.all
                    /\ returned' = returned \cup Returned(pw_jobs, "airtable")
                    /\ extracted' = extracted \cup Extracted(pw_jobs)
                    /\ pc' = NextBlock("airtable")
                    /\ UNCHANGED <<failed, log>>
    /\ UNCHANGED <<input, output, now, ticks, store, run, salt, url, fetches, jr_parsed, loaded, runNow,
                   prevNow, attempted, raisedFetches, fast, saveCalls, saved, mailerCalls,
                   mailOutcome, creds>>

\* --------------------------------------------------------- save and digest

SeenToSaveMutant(seen_, to_send) == {to_send[i][1].id : i \in DOMAIN to_send}
\* The argument of save_seen(seen).
SeenToSave(seen_, to_send) == seen_

\* to_send = all_jobs; to_send.sort(key=sort_key); save_seen(seen)
Save ==
    /\ pc = "save"
    /\ all_jobs' = SortJobs(all_jobs)
    /\ store' = save_seen(SeenToSave(seen, all_jobs))
    /\ saved' = SeenToSave(seen, all_jobs)
    /\ saveCalls' = saveCalls + 1
    /\ pc' = "dispatch"
    /\ UNCHANGED <<input, output, now, ticks, world, run, salt, seen, url, fetches, jr_parsed, loaded,
                   runNow, prevNow, attempted, failed, raisedFetches, returned, fast,
                   pwInvoked, mailerCalls, mailOutcome, creds, log, extracted>>

CredsMissingMutant(to_addr, password) == ~to_addr /\ ~password
\* if not to_addr or not password
CredsMissing(to_addr, password) == ~to_addr \/ ~password

\* if not to_send: return; the environment is read; without credentials the
\* body is printed; else one SMTP session, which succeeds or raises.  The
\* process ends here, and its hash salt with it.
Dispatch ==
    /\ pc = "dispatch"
    /\ IF all_jobs = <<>>
       THEN /\ pc' = "done"
            /\ UNCHANGED <<mailerCalls, mailOutcome, creds, log>>
       ELSE \E to_addr \in BOOLEAN, password \in BOOLEAN :
            /\ creds' = [read |-> TRUE, to |-> to_addr, pw |-> password]
            /\ IF CredsMissing(to_addr, password)
               THEN /\ log' = log \cup {"Set EMAIL_TO and EMAIL_APP_PASSWORD. Body"}
                    /\ pc' = "done"
                    /\ UNCHANGED <<mailerCalls, mailOutcome>>
               ELSE \E sent \in BOOLEAN :
                    /\ mailerCalls' = mailerCalls + 1
                    /\ mailOutcome' = IF sent THEN "sent" ELSE "failed"
                    /\ log' = log \cup {IF sent THEN "Email sent" ELSE "Email failed"}
                    /\ pc' = IF sent THEN "done" ELSE AfterMailError
    /\ salt' = 0
    /\ UNCHANGED <<input, output, now, ticks, world, store, run, seen, all_jobs, url, fetches,
                   jr_parsed, loaded, runNow, prevNow, attempted, failed, raisedFetches,
                   returned, fast, pwInvoked, saveCalls, saved, extracted>>

Next ==
    \/ Start
    \/ IL
    \/ ILPlaywright
    \/ JRFetchRetry
    \/ JRFetchRaise
    \/ JRFetchOk
    \/ JRPlaywright
    \/ AT
    \/ ATPlaywright
    \/ Save
    \/ Dispatch

Spec == Init /\ [][Next]_vars

\* ---------------------------------------------------------- function calls

\* The functions of alert.py called on their own: the arguments are drawn at
\* the start, one action per function applies it.

mainVars == <<now, ticks, world, store, run, pc, salt, seen, all_jobs, url, fetches, jr_parsed,
              loaded, runNow, prevNow, attempted, failed, raisedFetches, returned, fast,
              pwInvoked, saveCalls, saved, mailerCalls, mailOutcome, creds, log, extracted>>

\* Texts: one phrase "<n><unit> ago" ("days" is a unit the pattern does not
\* match), two phrases behind a word, no phrase at all.
Texts ==
    {<<Rel(n, u)>> : n \in 0..MaxAgo, u \in UnitTokens \cup {"days"}}
    \cup {<<Word("posted"), Rel(a, u), Rel(b, v)>> :
            a \in {2, 119}, b \in {3, 121}, u \in {"m", "mins", "h", "hours"}, v \in {"min", "hr"}}
    \cup {<<>>, <<Word("posted")>>, <<DateLabel(Today0)>>}

MinHrs == {1, MIN_HR, MIN_HR + 1}
Los == UNION {{m - 1, m, m * YEAR_HOURS - 1, m * YEAR_HOURS} : m \in MinHrs}
\* The upper bound of a range; None when the text has no "-$M".
His == {None, 20, 30, 60000}
Salaries ==
    {Salary(k, 0, None, "HR") : k \in {"none", "nonstr", "na", "junk"}}
    \cup {Salary("range", lo, hi, u) : lo \in Los, hi \in His, u \in {"HR", "YR"}}

Locations == SUBSET {"canada", "uk", "toronto", "usa", "remote", "ST", "mars", "indianapolis",
                    "milwaukee"}

WindowMs == WINDOW_MINS * 60 * 1000
Elapsed == {0 - MinMs, 0 - 1, 0, 1, WindowMs - 1, WindowMs, WindowMs + 1, WindowMs + MinMs}

\* An intern-list posting shown with its calendar date.
Dated(id, day) == Posting(id, FALSE, id, 1, day * DayMs, "date", NoSalary, {})
Pages ==
    {<<Dated(1, d)>> : d \in (Today0 - 3)..(Today0 + 1)}
    \cup {<<Dated(1, Today0), Dated(2, Today0), Dated(3, Today0 - 3)>>,
          <<Dated(1, Today0 - 2), Dated(2, Today0 - 1), Dated(3, Today0 + 1)>>}
\* Wall clocks of the day Today0: midnight, just after, 10:00, just before the next.
Clocks == {Today0 * DayMs, Today0 * DayMs + 1, NowStart, (Today0 + 1) * DayMs - 1}

Calls ==
    {Call("text", t, NoSalary, 0, {}, 0, <<>>, 0) : t \in Texts}
    \cup {Call("salary", <<>>, sal, m, {}, 0, <<>>, 0) : sal \in Salaries, m \in MinHrs}
    \cup {Call("location", <<>>, NoSalary, 0, l, 0, <<>>, 0) : l \in Locations}
    \cup {Call("minisite", <<>>, sal, 0, l, e, <<>>, NowStart) :
            sal \in {Salary("range", 30, None, "HR"), Salary("range", 20, 40, "HR")},
            l \in {{"usa"}, {"canada"}}, e \in Elapsed}
    \cup {Call("page", <<>>, NoSalary, 0, {}, 0, pg, c) : pg \in Pages, c \in Clocks}

PureInit == NotStarted /\ input \in Calls /\ output = NoResult

ApplyParseRelativeTime ==
    /\ input.fn = "text" /\ output = NoResult
    /\ LET r == parse_relative_time(input.text)
       IN  output' = Result("parse_relative_time", r.mins # None, r.mins, r.raw, <<>>)
    /\ UNCHANGED <<input, mainVars>>

ApplyWithinLast2hr ==
    /\ input.fn = "text" /\ output = NoResult
    /\ output' = Result("within_last_2hr", within_last_2hr(input.text), None, NoTok, <<>>)
    /\ UNCHANGED <<input, mainVars>>

ApplyMeetsMinPay ==
    /\ input.fn = "salary" /\ output = NoResult
    /\ output' = Result("meets_min_pay", meets_min_pay(input.salary, input.min_hr), None, NoTok, <<>>)
    /\ UNCHANGED <<input, mainVars>>

ApplyIsUsaLocation ==
    /\ input.fn = "location" /\ output = NoResult
    /\ output' = Result("is_usa_location", is_usa_location(input.loc), None, NoTok, <<>>)
    /\ UNCHANGED <<input, mainVars>>

\* parse_jobright_next_data on a page whose initialJobs holds one entry,
\* posted input.elapsed ms before the call.
ApplyParseJobrightNextData ==
    /\ input.fn = "minisite" /\ output = NoResult
    /\ LET p == Posting(1, FALSE, 1, 1, input.at - input.elapsed, "rel", input.salary, input.loc)
           jobs == parse_jobright_next_data(<<MiniJob(p, input.at)>>, input.at)
       IN  output' = Result("parse_jobright_next_data", jobs # <<>>, None,
                            IF jobs = <<>> THEN NoTok ELSE jobs[1].posted_str[1],
                            [i \in DOMAIN jobs |-> jobs[i].raw.post])
    /\ UNCHANGED <<input, mainVars>>

\* The intern-list block of main on a static page, with an empty seen set:
\* parse_intern_list, the job_in_window filter and the merge loop.
ApplyInternListBlock ==
    /\ input.fn = "page" /\ output = NoResult
    /\ LET parsed == parse_intern_list([i \in DOMAIN input.page |-> ILMatch(input.page[i], input.at)],
                                       input.at)
           kept == SelectSeq(parsed, LAMBDA j : job_in_window(j, input.at))
           m == MergeJobs(kept, {}, <<>>, "intern-list")
       IN  output' = Result("intern_list_block", m.all # <<>>, None, NoTok,
                            [i \in DOMAIN m.all |-> m.all[i][1].raw.post])
    /\ UNCHANGED <<input, mainVars>>

PureNext ==
    \/ ApplyParseRelativeTime
    \/ ApplyWithinLast2hr
    \/ ApplyMeetsMinPay
    \/ ApplyIsUsaLocation
    \/ ApplyParseJobrightNextData
    \/ ApplyInternListBlock

PureSpec == PureInit /\ [][PureNext]_vars

\* ------------------------------------------------------------------ claims

AllSourcesDone == pc \in {"save", "dispatch"} \cup RunEnd
Saved == pc \in {"dispatch"} \cup RunEnd
BatchIds == {all_jobs[i][1].id : i \in DOMAIN all_jobs}

\* C1 (as claimed): a run that follows another at the same wall clock, over
\* the same payloads and with the seen file the first run wrote, has an
\* empty novel batch.
C1_SecondRunBatchEmpty ==
    (run >= 2 /\ Saved /\ prevNow = runNow) => all_jobs = <<>>

\* C2 (as claimed): once the sources are done, the id of every record a
\* normalizer returned in this run is in seen.
C2_EveryReturnedIdSeen ==
    AllSourcesDone => \A r \in returned : r.id \in seen

\* C2 (amended): once the sources are done, seen is what was loaded plus the
\* ids of the records that reached a source's merge loop: those of a block
\* that did not end in its except clause and that job_in_window did not
\* reject.  A rejected intern-list record leaves seen as it was.
C2_MergedIdsSeen ==
    AllSourcesDone =>
        seen = loaded \cup {r.id : r \in {x \in returned : x.inwin /\ x.src \notin failed}}

C2_Witness ==
    /\ pc = "dispatch"
    /\ \E r \in returned : ~r.inwin /\ r.id \notin seen
    /\ \E r \in returned : r.inwin /\ r.id \in loaded /\ r.id \in seen

\* C3: save_seen is not called before the three source blocks are done, and
\* is then called exactly once, with main's seen; what it writes contains
\* every id loaded at the start of the run.
C3_SavedOnceWithEverything ==
    /\ (pc \in {"il", "il_pw", "jr", "jr_pw", "at", "at_pw", "save"} => saveCalls = 0)
    /\ (Saved => /\ saveCalls = 1
                 /\ attempted = Sources
                 /\ saved = seen
                 /\ store = saved
                 /\ loaded \subseteq store)

C3_Witness ==
    /\ pc = "done" /\ run = 2
    /\ loaded # {} /\ all_jobs = <<>> /\ failed # {}
    /\ saveCalls = 1 /\ loaded \subseteq store

\* C4: a source block that ends in its except clause does not end the run:
\* the blocks are entered in the order intern-list, jobright, airtable, all
\* three have been entered when the seen set is saved, every run that has
\* ended has saved it, and only a mail failure ends a run with an error.
C4_SourceFailureDoesNotAbort ==
    /\ \E n \in 0..Len(Sources) : attempted = SubSeq(Sources, 1, n)
    /\ (AllSourcesDone => attempted = Sources)
    /\ (pc \in RunEnd => saveCalls = 1)
    /\ (pc = "fatal" => mailOutcome = "failed")
    /\ (failed # {} /\ pc \in RunEnd => store = seen)

C4_Witness ==
    /\ pc = "done" /\ saveCalls = 1
    /\ failed = {"intern-list", "jobright", "airtable"}

\* C5: a failure of the SMTP session is logged and ends main with the
\* exception; nothing else does.
C5_MailFailureIsFatal ==
    /\ (mailOutcome = "failed" => pc = "fatal" /\ "Email failed" \in log)
    /\ (pc = "fatal" => mailOutcome = "failed")

C5_Witness == pc = "fatal" /\ mailOutcome = "failed" /\ mailerCalls = 1

\* C6: at most one SMTP session per run, and only with a non-empty batch and
\* both EMAIL_TO and EMAIL_APP_PASSWORD set; an empty batch ends the run
\* normally without one; missing credentials print the body and end the run
\* normally without one.
C6_MailerOnlyWithBatchAndCreds ==
    /\ mailerCalls <= 1
    /\ (mailerCalls = 1 => all_jobs # <<>> /\ creds.read /\ creds.to /\ creds.pw)
    /\ (pc \in RunEnd /\ all_jobs = <<>> => pc = "done" /\ mailerCalls = 0)
    /\ (pc \in RunEnd /\ creds.read /\ ~(creds.to /\ creds.pw) =>
            /\ pc = "done" /\ mailerCalls = 0
            /\ "Set EMAIL_TO and EMAIL_APP_PASSWORD. Body" \in log)

C6_Witness ==
    /\ pc = "done" /\ all_jobs # <<>>
    /\ creds.read /\ creds.to /\ ~creds.pw /\ mailerCalls = 0

\* C7 (as claimed): a fetch that keeps failing has been attempted at most
\* twice when its error is raised.
C7_AtMostTwoAttempts == \A s \in DOMAIN raisedFetches : raisedFetches[s] <= 2

\* C7 (amended): a jobright fetch that keeps failing is attempted three times
\* (the first attempt and two retries) before its error is raised, and the
\* jobright block then adds nothing to the batch; the intern-list and airtable
\* fetches are attempted once.
C7_AtMostThreeAttempts ==
    /\ fetches <= 2
    /\ raisedFetches["jobright"] \in {0, 3}
    /\ raisedFetches["intern-list"] \in {0, 1}
    /\ raisedFetches["airtable"] = 0
    /\ (raisedFetches["jobright"] # 0 =>
            /\ "jobright" \in failed
            /\ \A i \in DOMAIN all_jobs : all_jobs[i][2] # "jobright")

C7_Witness ==
    /\ pc = "at" /\ raisedFetches["jobright"] = 3 /\ url = 2
    /\ "fetch retry" \in log

\* C8 (as claimed): for each source the browser normalizer is invoked exactly
\* when the faster extraction raised, returned nothing or gave no in-window
\* result.
C8_FallbackIffZeroOrFailed ==
    AllSourcesDone =>
        \A s \in DOMAIN fast : (s \in pwInvoked) <=> (fast[s] \in {"raised", "nothing", "zero"})

\* C8 (amended): the browser normalizer is never invoked for a source whose
\* faster extraction gave a result.  For intern-list and jobright it is
\* invoked exactly when every fetch of the block succeeded and the faster
\* extraction gave no in-window result (not when a fetch raised); for airtable
\* exactly when the API call returned nothing (not when it returned data
\* whose rows gave no result).
C8_FallbackPerSource ==
    AllSourcesDone =>
        /\ \A s \in DOMAIN fast : fast[s] = "some" => s \notin pwInvoked
        /\ ("intern-list" \in pwInvoked <=> fast["intern-list"] = "zero")
        /\ ("jobright" \in pwInvoked <=> fast["jobright"] = "zero")
        /\ ("airtable" \in pwInvoked <=> fast["airtable"] = "nothing")

C8_Witness ==
    /\ pc = "dispatch"
    /\ fast["intern-list"] = "raised" /\ fast["jobright"] = "zero" /\ fast["airtable"] = "zero"
    /\ pwInvoked = {"jobright"}

\* C9 (as claimed): two extractions of the same posting by the same
\* normalizer, with the same title and company, give the same id.
C9_SamePostingSameId ==
    \A a \in extracted, b \in extracted :
        (a.norm = b.norm /\ a.post = b.post /\ a.title = b.title /\ a.company = b.company)
            => a.id = b.id

\* C10 (as claimed): every jobright record of the batch passed meets_min_pay
\* and is_usa_location and was inside the window when it was extracted.
C10_JobrightGuardrails ==
    \A i \in DOMAIN all_jobs :
        all_jobs[i][2] = "jobright" =>
            LET j == all_jobs[i][1]
            IN  /\ meets_min_pay(j.raw.salary, MIN_HR)
                /\ is_usa_location(j.raw.location)
                /\ 0 <= j.at - j.raw.at
                /\ j.at - j.raw.at <= WINDOW_MINS * 60 * 1000

\* The records of a batch without / with an absolute posted timestamp.
NoTimestamp(s) == SelectSeq(s, LAMBDA x : x[1].posted = None)
WithTimestamp(s) == SelectSeq(s, LAMBDA x : x[1].posted # None)
Occurrences(x, s) == Cardinality({i \in DOMAIN s : s[i] = x})
IsPermutation(s, t) ==
    /\ Len(s) = Len(t)
    /\ \A i \in DOMAIN s : Occurrences(s[i], s) = Occurrences(s[i], t)

C13_MinuteAndHourUnits ==
    output.fn = "parse_relative_time" =>
        LET idx == {i \in DOMAIN input.text :
                      input.text[i].k = "t" /\ input.text[i].u \in UnitTokens}
        IN  IF idx = {} THEN output.mins = None /\ output.raw = NoTok
            ELSE LET m == input.text[MinOf(idx)]
                 IN  /\ output.raw = m
                     /\ output.mins = IF m.u \in {"minute", "minutes", "min", "mins", "m"}
                                      THEN m.n ELSE m.n * 60

\* C14: meets_min_pay is true exactly for a text "$N[-$M]/hr" with
\* N >= min_hr or "$N[-$M]/yr" with N >= 2080 * min_hr; M does not matter;
\* missing, non-string, unparseable and "N/A" input give false.
C14_MinPayLowerBound ==
    output.fn = "meets_min_pay" =>
        LET sal == input.salary
        IN  /\ output.ok <=> /\ sal.kind = "range"
                             /\ \/ sal.unit = "HR" /\ sal.lo >= input.min_hr
                                \/ sal.unit = "YR" /\ sal.lo >= 2080 * input.min_hr
            /\ \A hi \in His : meets_min_pay([sal EXCEPT !.hi = hi], input.min_hr) = output.ok
            /\ sal.kind \in {"none", "nonstr", "na", "junk"} => ~output.ok

\* "$25-$30/hr" against 25.
C14_Witness ==
    /\ output.fn = "meets_min_pay" /\ output.ok
    /\ input.salary = Salary("range", 25, 30, "HR") /\ input.min_hr = 25

\* C15 (as claimed): is_usa_location is false exactly when one of the words
\* of the text is a disallowed token, whatever else the text holds; the empty
\* text and a text with no token of either list give true.
C15_DisallowedWins ==
    output.fn = "is_usa_location" =>
        /\ output.ok <=> (input.loc \cap Disallowed = {})
        /\ input.loc \in {{}, {"mars"}} => output.ok

\* C16: of the records of a static intern-list page that carry a calendar
\* date only, the batch holds exactly those dated today or yesterday (UTC) at
\* the time of the run: none dated two or more days ago, none dated in the
\* future.
C16_TodayOrYesterday ==
    output.fn = "intern_list_block" =>
        LET today == input.at \div DayMs
            accepted == {output.jobs[i] : i \in DOMAIN output.jobs}
        IN  \A i \in DOMAIN input.page :
                (input.page[i].id \in accepted) <=>
                    (input.page[i].posted \div DayMs) \in {today, today - 1}

\* Two postings dated today and one dated three days ago.
C16_Witness ==
    /\ output.fn = "intern_list_block"
    /\ input.page = <<Dated(1, Today0), Dated(2, Today0), Dated(3, Today0 - 3)>>
    /\ output.jobs = <<1, 2>>

\* C17 (as claimed): save_seen has been called when the SMTP session is
\* opened; when the session fails, the ids of the run's batch are in the seen
\* file, the next run has them in its seen set from the start, and no batch
\* holds an id its run loaded.
C17_FailedDigestNotRepeated ==
    /\ [](mailerCalls >= 1 => saveCalls = 1 /\ BatchIds \subseteq store)
    /\ [](BatchIds \cap loaded = {})
    /\ [][(pc = "fatal" /\ run' = run + 1) => BatchIds \subseteq loaded']_vars

\* C18: the batch never holds two entries with one id, never holds an id that
\* load_seen returned at the start of the run, and every id of the batch is in
\* seen, hence in the set save_seen writes.
C18_BatchDistinctNewAndSaved ==
    /\ \A i \in DOMAIN all_jobs, j \in DOMAIN all_jobs :
          all_jobs[i][1].id = all_jobs[j][1].id => i = j
    /\ BatchIds \cap loaded = {}
    /\ BatchIds \subseteq seen
    /\ (Saved => BatchIds \subseteq saved /\ saved = store)

\* A second run: two minisites list the same posting, whose id was loaded and
\* stays out of the batch; the batch holds other records, all saved.
C18_Witness ==
    /\ pc = "dispatch" /\ run = 2
    /\ world["m1"] = Got("ok", <<J1, J2>>) /\ world["m2"] = world["m1"]
    /\ Id("jr", 21, FALSE) \in loaded
    /\ Id("jr", 21, FALSE) \in {r.id : r \in returned}
    /\ Id("jr", 21, FALSE) \notin BatchIds
    /\ Len(all_jobs) >= 2 /\ BatchIds \subseteq store

====
